---- MODULE Spec2Model ----
(***************************************************************************)
(* NetworkDiscovery (sn_networking/src/network_discovery.rs): the table of *)
(* candidate addresses kept per ilog2 distance bucket, populated by new,   *)
(* topped up by try_refresh_candidates, merged with real peers by          *)
(* handle_get_closest_query and read by candidates().                      *)
(***************************************************************************)
EXTENDS Integers, Sequences, FiniteSets, TLC

\* const MAX_PEERS_PER_BUCKET: usize = 5;
MAX_PEERS_PER_BUCKET == 5

\* INITIAL_GENERATION_ATTEMPTS (10_000 in the source), scaled down: the number
\* of PeerIds drawn by new.
INITIAL_GENERATION_ATTEMPTS == 6

\* GENERATION_ATTEMPTS (1_000 in the source), scaled down: the number of
\* PeerIds drawn by each try_refresh_candidates.
GENERATION_ATTEMPTS == 1

\* Width of a key in bits (256 in the source).
KeyBits == 2

\* Number of distinct PeerIds that are drawn or reported, the local peer's
\* among them; at most 2 ^ KeyBits, so that no two of them share a key.
NumPeers == 3

\* Largest set of peers one handle_get_closest_query call receives.
MaxClosestPeers == 2

\* Longest queue explored: a merge that would make a queue longer is left
\* out (the merge of duplicates lets a queue grow without limit).
MaxQueueLen == 6

VARIABLES
    self_key,     \* NetworkDiscovery.self_key
    candidates,   \* NetworkDiscovery.candidates: bucket -> queue of addresses
    op,           \* the call that has run and is about to return: "new",
                  \* "refresh", "merge" or "candidates"; "idle" between calls
    input,        \* what that call consumed: the PeerIds drawn, or the
                  \* peers in the order the HashSet yielded them
    before,       \* candidates as it was when that call started
    yielded       \* {} or {s}: the sequence a live candidates() iterator yields

vars == <<self_key, candidates, op, input, before, yielded>>

----------------------------------------------------------------------------
(* Identifiers, keys and the distance metric (libp2p kad)                  *)

Pow2(n) == 2 ^ n

PeerIds == 0 .. (NumPeers - 1)

\* KBucketKey::from(peer) / NetworkAddress::as_kbucket_key: a hash of the
\* peer's bytes; distinct peers get distinct keys.
KeyOf(p) == (5 * p + 3) % Pow2(KeyBits)

\* KBucketKey::distance: bitwise XOR of the two keys.
RECURSIVE Distance(_, _)
Distance(a, b) ==
    IF a = 0 /\ b = 0 THEN 0
    ELSE (((a % 2) + (b % 2)) % 2) + 2 * Distance(a \div 2, b \div 2)

\* Distance::ilog2: None (<<>>) for zero, Some(floor(log2 d)) (<<b>>) otherwise,
\* found as the position of the highest set bit.
RECURSIVE HighBit(_)
HighBit(d) == IF d <= 1 THEN 0 ELSE 1 + HighBit(d \div 2)

\* Ilog2 taken as the bit length of d, one more than floor(log2 d);
\* C3_BucketCorrectness tells it from Ilog2.
Ilog2_bit_length(d) == IF d = 0 THEN <<>> ELSE <<HighBit(d) + 1>>

Ilog2(d) == IF d = 0 THEN <<>> ELSE <<HighBit(d)>>

----------------------------------------------------------------------------
(* The table operations                                                    *)

EmptyTable == <<>>

Contains(q, a) == \E i \in 1 .. Len(q) : q[i] = a

\* generate_candidates keeping a draw at distance zero, under index 0
\* (unwrap_or_default for the ? on ilog2); C14_GeneratorOutput tells it from
\* generate_candidates.
RECURSIVE generate_candidates_keep_zero(_, _)
generate_candidates_keep_zero(key, draws) ==
    IF draws = <<>> THEN <<>>
    ELSE <<[ilog2 |-> HighBit(Distance(KeyOf(Head(draws)), key)),
            candidate |-> Head(draws)]>>
         \o generate_candidates_keep_zero(key, Tail(draws))

\* generate_candidates: one (ilog2, candidate) pair per draw whose distance
\* from self_key is not zero, in draw order.
RECURSIVE generate_candidates(_, _)
generate_candidates(key, draws) ==
    IF draws = <<>> THEN <<>>
    ELSE LET candidate == Head(draws)
             ilog2_distance == Ilog2(Distance(KeyOf(candidate), key))
             rest == generate_candidates(key, Tail(draws))
         IN  IF ilog2_distance = <<>> THEN rest
             ELSE <<[ilog2 |-> ilog2_distance[1], candidate |-> candidate]>> \o rest

\* new_insert that starts a fresh map for a vacant entry (the other buckets
\* are lost); C15_InsertionFrame tells it from new_insert.
new_insert_fresh_map(table, ilog2, candidate) ==
    IF ilog2 \in DOMAIN table
    THEN IF Len(table[ilog2]) >= MAX_PEERS_PER_BUCKET
         THEN table
         ELSE [table EXCEPT ![ilog2] = Append(@, candidate)]
    ELSE (ilog2 :> <<candidate>>)

\* new_insert that creates the queue of a vacant entry without the candidate
\* (VecDeque::new() for VecDeque::from([candidate]));
\* C19_QueuesNonEmpty tells it from new_insert.
new_insert_empty_queue(table, ilog2, candidate) ==
    IF ilog2 \in DOMAIN table
    THEN IF Len(table[ilog2]) >= MAX_PEERS_PER_BUCKET
         THEN table
         ELSE [table EXCEPT ![ilog2] = Append(@, candidate)]
    ELSE (ilog2 :> <<>>) @@ table

\* new_insert with the policy of try_refresh_candidates (a full bucket loses
\* its front); C4_ConstructionDropPolicy tells it from new_insert.
new_insert_evicting(table, ilog2, candidate) ==
    IF ilog2 \in DOMAIN table
    THEN IF Len(table[ilog2]) >= MAX_PEERS_PER_BUCKET
         THEN [table EXCEPT ![ilog2] = Append(Tail(@), candidate)]
         ELSE [table EXCEPT ![ilog2] = Append(@, candidate)]
    ELSE (ilog2 :> <<candidate>>) @@ table

\* Body of the loop of new: a full bucket drops the candidate.
new_insert(table, ilog2, candidate) ==
    IF ilog2 \in DOMAIN table
    THEN IF Len(table[ilog2]) >= MAX_PEERS_PER_BUCKET
         THEN table
         ELSE [table EXCEPT ![ilog2] = Append(@, candidate)]
    ELSE (ilog2 :> <<candidate>>) @@ table

\* refresh_insert that only updates buckets that exist (a vacant entry is
\* left vacant); C11_BucketKeyCoverage tells it from refresh_insert.
refresh_insert_occupied_only(table, ilog2, candidate) ==
    IF ilog2 \in DOMAIN table
    THEN IF Len(table[ilog2]) >= MAX_PEERS_PER_BUCKET
         THEN [table EXCEPT ![ilog2] = Append(Tail(@), candidate)]
         ELSE [table EXCEPT ![ilog2] = Append(@, candidate)]
    ELSE table

\* refresh_insert evicting the back of a full bucket (pop_back for
\* pop_front); C12_FifoOrder tells it from refresh_insert.
refresh_insert_pop_back(table, ilog2, candidate) ==
    IF ilog2 \in DOMAIN table
    THEN IF Len(table[ilog2]) >= MAX_PEERS_PER_BUCKET
         THEN [table EXCEPT ![ilog2] = Append(SubSeq(@, 1, Len(@) - 1), candidate)]
         ELSE [table EXCEPT ![ilog2] = Append(@, candidate)]
    ELSE (ilog2 :> <<candidate>>) @@ table

\* refresh_insert that never evicts (push_back in both arms);
\* C16_RefreshOnlyCapacity tells it from refresh_insert.
refresh_insert_no_pop(table, ilog2, candidate) ==
    IF ilog2 \in DOMAIN table
    THEN [table EXCEPT ![ilog2] = Append(@, candidate)]
    ELSE (ilog2 :> <<candidate>>) @@ table

\* refresh_insert skipping a candidate the queue already holds;
\* C5_RefreshSlidingWindow tells it from refresh_insert.
refresh_insert_dedup(table, ilog2, candidate) ==
    IF ilog2 \in DOMAIN table
    THEN IF Contains(table[ilog2], candidate)
         THEN table
         ELSE IF Len(table[ilog2]) >= MAX_PEERS_PER_BUCKET
              THEN [table EXCEPT ![ilog2] = Append(Tail(@), candidate)]
              ELSE [table EXCEPT ![ilog2] = Append(@, candidate)]
    ELSE (ilog2 :> <<candidate>>) @@ table

\* Body of the loop of try_refresh_candidates: a full bucket loses its front.
refresh_insert(table, ilog2, candidate) ==
    IF ilog2 \in DOMAIN table
    THEN IF Len(table[ilog2]) >= MAX_PEERS_PER_BUCKET
         THEN [table EXCEPT ![ilog2] = Append(Tail(@), candidate)]
         ELSE [table EXCEPT ![ilog2] = Append(@, candidate)]
    ELSE (ilog2 :> <<candidate>>) @@ table

\* merge_insert that evicts the front of a full bucket and forgets the
\* push_back; C18_NoQueueShortens tells it from merge_insert.
merge_insert_pop_only(table, ilog2, peer) ==
    IF ilog2 \in DOMAIN table
    THEN IF Len(table[ilog2]) >= MAX_PEERS_PER_BUCKET
            /\ ~Contains(table[ilog2], peer)
         THEN [table EXCEPT ![ilog2] = Tail(@)]
         ELSE [table EXCEPT ![ilog2] = Append(@, peer)]
    ELSE (ilog2 :> <<peer>>) @@ table

\* merge_insert leaving a full bucket alone; C7_MergeEviction tells it from
\* merge_insert.
merge_insert_skip_full(table, ilog2, peer) ==
    IF ilog2 \in DOMAIN table
    THEN IF Len(table[ilog2]) >= MAX_PEERS_PER_BUCKET
            /\ ~Contains(table[ilog2], peer)
         THEN table
         ELSE [table EXCEPT ![ilog2] = Append(@, peer)]
    ELSE (ilog2 :> <<peer>>) @@ table

\* merge_insert without the containment test (a full bucket always loses its
\* front); C8_MergeDuplicateIntoFull tells it from merge_insert.
merge_insert_no_contains(table, ilog2, peer) ==
    IF ilog2 \in DOMAIN table
    THEN IF Len(table[ilog2]) >= MAX_PEERS_PER_BUCKET
         THEN [table EXCEPT ![ilog2] = Append(Tail(@), peer)]
         ELSE [table EXCEPT ![ilog2] = Append(@, peer)]
    ELSE (ilog2 :> <<peer>>) @@ table

\* The match on self.candidates.entry(ilog2_distance) in
\* handle_get_closest_query: a full bucket loses its front only when it does
\* not hold the peer yet; in every other case the peer is pushed at the back.
merge_insert(table, ilog2, peer) ==
    IF ilog2 \in DOMAIN table
    THEN IF Len(table[ilog2]) >= MAX_PEERS_PER_BUCKET
            /\ ~Contains(table[ilog2], peer)
         THEN [table EXCEPT ![ilog2] = Append(Tail(@), peer)]
         ELSE [table EXCEPT ![ilog2] = Append(@, peer)]
    ELSE (ilog2 :> <<peer>>) @@ table

\* merge_peer without the test for distance zero (the local peer lands in
\* bucket 0); C2_SelfMergeExclusion tells it from merge_peer.
merge_peer_no_zero_test(table, key, peer) ==
    merge_insert(table, HighBit(Distance(KeyOf(peer), key)), peer)

\* Body of the loop of handle_get_closest_query: a peer at distance zero is
\* skipped.
merge_peer(table, key, peer) ==
    LET ilog2_distance == Ilog2(Distance(KeyOf(peer), key))
    IN  IF ilog2_distance = <<>> THEN table
        ELSE merge_insert(table, ilog2_distance[1], peer)

RECURSIVE new_table(_, _)
new_table(table, batch) ==
    IF batch = <<>> THEN table
    ELSE new_table(new_insert(table, Head(batch).ilog2, Head(batch).candidate),
                   Tail(batch))

RECURSIVE refresh_table(_, _)
refresh_table(table, batch) ==
    IF batch = <<>> THEN table
    ELSE refresh_table(
             refresh_insert(table, Head(batch).ilog2, Head(batch).candidate),
             Tail(batch))

RECURSIVE merge_table(_, _, _)
merge_table(table, key, peers) ==
    IF peers = <<>> THEN table
    ELSE merge_table(merge_peer(table, key, Head(peers)), key, Tail(peers))

\* candidates_iter yielding the back of each queue;
\* C6_CandidateProjection tells it from candidates_iter.
RECURSIVE candidates_iter_back(_, _)
candidates_iter_back(table, order) ==
    IF order = <<>> THEN <<>>
    ELSE LET q == table[Head(order)]
             rest == candidates_iter_back(table, Tail(order))
         IN  IF q = <<>> THEN rest ELSE <<q[Len(q)]>> \o rest

\* candidates(): the front of each queue, in the order the map is iterated;
\* an empty queue yields nothing.
RECURSIVE candidates_iter(_, _)
candidates_iter(table, order) ==
    IF order = <<>> THEN <<>>
    ELSE LET q == table[Head(order)]
             rest == candidates_iter(table, Tail(order))
         IN  IF q = <<>> THEN rest ELSE <<Head(q)>> \o rest

----------------------------------------------------------------------------
(* Inputs                                                                  *)

Draws(n) == [1 .. n -> PeerIds]

\* The orders in which a set can be iterated: its injective enumerations.
Orders(S) ==
    {s \in [1 .. Cardinality(S) -> S] : \A i, j \in 1 .. Len(s) : s[i] = s[j] => i = j}

PeerSets == {S \in SUBSET PeerIds : Cardinality(S) <= MaxClosestPeers}

----------------------------------------------------------------------------
(* Behaviour                                                               *)

\* NetworkDiscovery::new(self_peer_id)
Init ==
    \E self_peer_id \in PeerIds, draws \in Draws(INITIAL_GENERATION_ATTEMPTS) :
        /\ self_key = KeyOf(self_peer_id)
        /\ candidates = new_table(EmptyTable, generate_candidates(KeyOf(self_peer_id), draws))
        /\ op = "new"
        /\ input = draws
        /\ before = EmptyTable
        /\ yielded = {}

try_refresh_candidates ==
    /\ op = "idle"
    /\ \E draws \in Draws(GENERATION_ATTEMPTS) :
        /\ candidates' = refresh_table(candidates, generate_candidates(self_key, draws))
        /\ input' = draws
    /\ op' = "refresh"
    /\ before' = candidates
    /\ UNCHANGED <<self_key, yielded>>

handle_get_closest_query ==
    /\ op = "idle"
    /\ \E closest_peers \in PeerSets :
        \E peers \in Orders(closest_peers) :
            /\ candidates' = merge_table(candidates, self_key, peers)
            /\ \A b \in DOMAIN candidates' : Len(candidates'[b]) <= MaxQueueLen
            /\ input' = peers
    /\ op' = "merge"
    /\ before' = candidates
    /\ UNCHANGED <<self_key, yielded>>

\* candidates(): a read of the table; the iterator it returns borrows the
\* table until the caller drops it.
candidates_call ==
    /\ op = "idle"
    /\ \E order \in Orders(DOMAIN candidates) :
        yielded' = {candidates_iter(candidates, order)}
    /\ op' = "candidates"
    /\ UNCHANGED <<self_key, candidates, input, before>>

\* The call returns: its arguments and locals (candidates_vec, closest_peers)
\* and the iterator of candidates() are dropped, the table stays as the call
\* left it.
call_return ==
    /\ op # "idle"
    /\ op' = "idle"
    /\ input' = <<>>
    /\ before' = EmptyTable
    /\ yielded' = {}
    /\ UNCHANGED <<self_key, candidates>>

Next ==
    \/ try_refresh_candidates
    \/ handle_get_closest_query
    \/ candidates_call
    \/ call_return

\* The runs without handle_get_closest_query: construction, refreshes and reads.
NextNoMerge ==
    \/ try_refresh_candidates
    \/ candidates_call
    \/ call_return

SpecNoMerge == Init /\ [][NextNoMerge]_vars

Spec == Init /\ [][Next]_vars

----------------------------------------------------------------------------
(* Vocabulary of the properties                                            *)

Buckets == 0 .. (KeyBits - 1)

\* Distance of an address from the local key.
Dist(a) == Distance(self_key, KeyOf(a))

\* b = floor(log2(d)) for d > 0, stated by its bounds.
IsFloorLog2(b, d) == d > 0 /\ Pow2(b) <= d /\ d < Pow2(b + 1)

FloorLog2(d) == CHOOSE b \in Buckets : IsFloorLog2(b, d)

AtNonZeroDistance(a) == Dist(a) # 0

\* The draws of the last call that are candidates, in draw order.
Generated == SelectSeq(input, AtNonZeroDistance)

\* The tables a merge of peers into t goes through: t, then the table after
\* each peer in turn.
RECURSIVE MergeTrace(_, _)
MergeTrace(t, peers) ==
    IF peers = <<>> THEN <<t>>
    ELSE <<t>> \o MergeTrace(merge_peer(t, self_key, Head(peers)), Tail(peers))

\* The tables a refresh with the drawn candidates cs goes through.
RECURSIVE RefreshTrace(_, _)
RefreshTrace(t, cs) ==
    IF cs = <<>> THEN <<t>>
    ELSE <<t>> \o RefreshTrace(
                      refresh_table(t, generate_candidates(self_key, <<Head(cs)>>)),
                      Tail(cs))

Min(a, b) == IF a <= b THEN a ELSE b

----------------------------------------------------------------------------
\* C1: every bucket's queue holds at most MAX_PEERS_PER_BUCKET entries in
\* every state reached by new followed by any refresh and merge calls.
C1_CapacityInvariant ==
    \A b \in DOMAIN candidates : Len(candidates[b]) <= MAX_PEERS_PER_BUCKET

\* C2: a peer at distance zero from self_key, processed by
\* handle_get_closest_query, leaves the table as it was: no bucket is
\* created and no queue is changed.
C2_SelfMergeExclusion ==
    op = "merge" =>
        LET tr == MergeTrace(before, input)
        IN  /\ candidates = tr[Len(input) + 1]
            /\ \A i \in 1 .. Len(input) :
                Dist(input[i]) = 0 => tr[i + 1] = tr[i]

\* C2 witness: a merge whose set held the local peer and a peer that was
\* inserted.
C2_Witness ==
    /\ op = "merge"
    /\ \E i \in 1 .. Len(input) : Dist(input[i]) = 0
    /\ candidates # before

\* C3: every address stored under bucket b is at a non-zero distance d from
\* self_key with b = floor(log2(d)).
C3_BucketCorrectness ==
    \A b \in DOMAIN candidates :
        \A i \in 1 .. Len(candidates[b]) :
            IsFloorLog2(b, Dist(candidates[b][i]))

\* C3 witness: a refresh has added an address to a table that held
\* addresses in another bucket.
C3_Witness ==
    /\ op = "refresh"
    /\ candidates # before
    /\ Cardinality(DOMAIN candidates) > 1

\* The candidates new generated for bucket b, in batch order.
GeneratedFor(b) ==
    LET InB(a) == IsFloorLog2(b, Dist(a))
    IN  SelectSeq(input, InB)

\* C4: after new, each bucket's queue is the first min(n, 5) candidates of
\* that bucket in batch order, n being the number of candidates the batch
\* held for it; a bucket the batch had no candidate for has no queue.
C4_ConstructionDropPolicy ==
    op = "new" =>
        \A b \in Buckets :
            LET forB == GeneratedFor(b)
            IN  IF forB = <<>>
                THEN b \notin DOMAIN candidates
                ELSE /\ b \in DOMAIN candidates
                     /\ candidates[b] =
                            SubSeq(forB, 1, Min(Len(forB), MAX_PEERS_PER_BUCKET))

\* C4 witness: the batch held more than 5 candidates for one bucket, and the
\* dropped one differs from the one retained in front.
C4_Witness ==
    /\ op = "new"
    /\ \E b \in Buckets :
        /\ Len(GeneratedFor(b)) > MAX_PEERS_PER_BUCKET
        /\ GeneratedFor(b)[MAX_PEERS_PER_BUCKET + 1] # GeneratedFor(b)[1]

\* C5: try_refresh_candidates, inserting candidate c for bucket b: a queue
\* of exactly 5 entries loses its front and gets c at the back, whether or
\* not it already holds c; a shorter queue gets c at the back; an absent
\* bucket gets the queue <<c>>.
C5_RefreshSlidingWindow ==
    op = "refresh" =>
        LET cs == Generated
            tr == RefreshTrace(before, cs)
        IN  /\ candidates = tr[Len(cs) + 1]
            /\ \A i \in 1 .. Len(cs) :
                LET c == cs[i]
                    b == FloorLog2(Dist(c))
                    t == tr[i]
                    u == tr[i + 1]
                IN  /\ b \in DOMAIN u
                    /\ b \notin DOMAIN t => u[b] = <<c>>
                    /\ (b \in DOMAIN t /\ Len(t[b]) < MAX_PEERS_PER_BUCKET)
                           => u[b] = t[b] \o <<c>>
                    /\ (b \in DOMAIN t /\ Len(t[b]) = MAX_PEERS_PER_BUCKET)
                           => /\ u[b] = Tail(t[b]) \o <<c>>
                              /\ Len(u[b]) = MAX_PEERS_PER_BUCKET

\* C5 witness: a refresh put c into a queue of 5 that already held c, in
\* front of it another address, which was evicted.
C5_Witness ==
    /\ op = "refresh"
    /\ Len(Generated) = GENERATION_ATTEMPTS
    /\ LET c == Generated[1]
           b == FloorLog2(Dist(c))
       IN  /\ b \in DOMAIN before
           /\ Len(before[b]) = MAX_PEERS_PER_BUCKET
           /\ Contains(Tail(before[b]), c)
           /\ Head(before[b]) # c
           /\ Len(candidates[b]) = MAX_PEERS_PER_BUCKET

\* C6: candidates() yields one address per bucket key of the table and
\* nothing else, each the front of its bucket's queue; for a table without
\* buckets it yields the empty sequence.
C6_CandidateProjection ==
    \A s \in yielded :
        \E order \in Orders(DOMAIN candidates) :
            /\ Len(s) = Len(order)
            /\ \A i \in 1 .. Len(order) :
                /\ Len(candidates[order[i]]) > 0
                /\ s[i] = candidates[order[i]][1]

\* C6 witness: candidates() ran on a table with a queue whose front differs
\* from its back.
C6_Witness ==
    /\ op = "candidates"
    /\ \E b \in DOMAIN candidates :
        candidates[b][1] # candidates[b][Len(candidates[b])]

ScenarioBatch(names) ==
    [i \in 1 .. Len(names) |-> [ilog2 |-> 3, candidate |-> names[i]]]

ScenarioConstructed ==
    new_table(EmptyTable, ScenarioBatch(<<"A", "B", "C", "D", "E", "F", "G">>))

ScenarioRefreshed == refresh_table(ScenarioConstructed, ScenarioBatch(<<"H">>))

ScenarioMerged == merge_insert(ScenarioRefreshed, 3, "H")

NoDuplicates(q) == \A i, j \in 1 .. Len(q) : q[i] = q[j] => i = j

\* C9: handle_get_closest_query never appends a peer to a bucket that
\* already holds that address: a bucket without two identical addresses
\* before the merge has none after it.
C9_NoDuplicateInsertion ==
    op = "merge" =>
        \A b \in DOMAIN before :
            NoDuplicates(before[b]) => NoDuplicates(candidates[b])

\* C10: handle_get_closest_query leaves a bucket that already holds
\* MAX_PEERS_PER_BUCKET entries unchanged.
C10_FullBucketUnchanged ==
    op = "merge" =>
        \A b \in DOMAIN before :
            Len(before[b]) = MAX_PEERS_PER_BUCKET => candidates[b] = before[b]

----------------------------------------------------------------------------
\* A call that changes the table has run and has not returned yet.
Mutated == op \in {"new", "refresh", "merge"}

\* The addresses the last call processed for bucket b, in processing order.
ArrivedFor(b) ==
    LET InB(a) == IsFloorLog2(b, Dist(a))
    IN  SelectSeq(input, InB)

\* The queue of bucket b when the last call started (empty if it had none).
QueueBefore(b) == IF b \in DOMAIN before THEN before[b] ELSE <<>>

\* C11: a bucket index is a key of the table iff a candidate with that index
\* was generated (by new or a refresh) or reported (by a merge) so far: each
\* call leaves as keys the keys it found and the indexes of what it
\* processed, and a key is never removed.
C11_BucketKeyCoverage ==
    Mutated =>
        DOMAIN candidates =
            DOMAIN before \cup {b \in Buckets : ArrivedFor(b) # <<>>}

\* C11 witness: a refresh has created a bucket next to one that existed.
C11_Witness ==
    /\ op = "refresh"
    /\ DOMAIN before # {}
    /\ DOMAIN candidates # DOMAIN before

\* C12: each queue is in insertion order: after a call, a queue is what it
\* was followed by the call's addresses for that bucket, less entries
\* removed at the front (refresh, merge) or arrivals dropped once the
\* bucket was full (new); entries that remain keep their order.
C12_FifoOrder ==
    Mutated =>
        \A b \in DOMAIN candidates :
            LET arrivals == QueueBefore(b) \o ArrivedFor(b)
                q == candidates[b]
            IN  /\ Len(q) <= Len(arrivals)
                /\ IF op = "new"
                   THEN q = SubSeq(arrivals, 1, Len(q))
                   ELSE q = SubSeq(arrivals, Len(arrivals) - Len(q) + 1,
                                   Len(arrivals))

\* C12 witness: a refresh has evicted the front of a queue whose first two
\* entries differed, and the rest kept its order in front of the newcomer.
C12_Witness ==
    /\ op = "refresh"
    /\ \E b \in DOMAIN before :
        /\ Len(before[b]) = MAX_PEERS_PER_BUCKET
        /\ before[b][1] # before[b][2]
        /\ Len(ArrivedFor(b)) = 1
        /\ candidates[b] = Tail(before[b]) \o ArrivedFor(b)

\* C13: the overshoot is transient: an insertion by try_refresh_candidates
\* or handle_get_closest_query into a bucket that holds more than
\* MAX_PEERS_PER_BUCKET entries brings it back to at most
\* MAX_PEERS_PER_BUCKET.
C13_OvershootTransient ==
    op \in {"refresh", "merge"} =>
        \A b \in DOMAIN before :
            (Len(before[b]) > MAX_PEERS_PER_BUCKET /\ ArrivedFor(b) # <<>>)
                => Len(candidates[b]) <= MAX_PEERS_PER_BUCKET

\* The tables new goes through with the generated candidates cs.
RECURSIVE NewTrace(_, _)
NewTrace(t, cs) ==
    IF cs = <<>> THEN <<t>>
    ELSE <<t>> \o NewTrace(
                      new_table(t, generate_candidates(self_key, <<Head(cs)>>)),
                      Tail(cs))

\* C14: generate_candidates returns at most one pair per draw; each pair
\* (b, a) has a at non-zero distance d from self_key and b = floor(log2(d));
\* the draws at distance zero, and only they, are left out.
C14_GeneratorOutput ==
    op \in {"new", "refresh"} =>
        LET out == generate_candidates(self_key, input)
        IN  /\ Len(out) <= Len(input)
            /\ \A i \in 1 .. Len(out) :
                IsFloorLog2(out[i].ilog2, Dist(out[i].candidate))
            /\ [i \in 1 .. Len(out) |-> out[i].candidate] = Generated

\* C14 witness: new drew the local peer and another peer: fewer pairs than
\* draws.
C14_Witness ==
    /\ op = "new"
    /\ Len(Generated) > 0
    /\ Len(Generated) < Len(input)

\* The addresses the last call processed one by one, and the tables it went
\* through while doing so.
Items == IF op = "merge" THEN input ELSE Generated

Trace ==
    IF op = "new" THEN NewTrace(EmptyTable, Items)
    ELSE IF op = "refresh" THEN RefreshTrace(before, Items)
    ELSE MergeTrace(before, Items)

\* Bucket b2 is the same in the tables t and u: absent in both, or present
\* in both with the same queue.
SameBucket(t, u, b2) ==
    /\ b2 \in DOMAIN t <=> b2 \in DOMAIN u
    /\ b2 \in DOMAIN t => t[b2] = u[b2]

C15_Frame ==
    Mutated =>
        LET items == Items
            tr == Trace
        IN  /\ candidates = tr[Len(items) + 1]
            /\ \A i \in 1 .. Len(items) :
                \A b2 \in Buckets :
                    ~IsFloorLog2(b2, Dist(items[i]))
                        => SameBucket(tr[i], tr[i + 1], b2)

\* C15: processing one address of bucket b in new, try_refresh_candidates
\* or handle_get_closest_query changes at most the queue of b: every other
\* bucket keeps its queue, no other key appears or disappears; and no step
\* changes self_key.
C15_InsertionFrame ==
    []C15_Frame /\ [][self_key' = self_key]_vars

\* C15 witness: a merge has changed one bucket of a table with two.
C15_Witness ==
    /\ op = "merge"
    /\ Cardinality(DOMAIN before) = 2
    /\ \E b \in DOMAIN before : candidates[b] # before[b]
    /\ \E b \in DOMAIN before : candidates[b] = before[b]

\* C16: with construction and try_refresh_candidates only (no
\* handle_get_closest_query), no queue ever exceeds MAX_PEERS_PER_BUCKET.
C16_RefreshOnlyCapacity ==
    \A b \in Buckets :
        b \in DOMAIN candidates => Len(candidates[b]) <= MAX_PEERS_PER_BUCKET

\* C16 witness: a refresh has inserted into a bucket that was full.
C16_Witness ==
    /\ op = "refresh"
    /\ \E b \in DOMAIN before :
        /\ Len(before[b]) = MAX_PEERS_PER_BUCKET
        /\ ArrivedFor(b) # <<>>
        /\ Len(candidates[b]) = MAX_PEERS_PER_BUCKET

AddressesOf(q) == {q[i] : i \in 1 .. Len(q)}

\* C17: the outcome of handle_get_closest_query does not depend on the
\* order in which the peers of the set are processed: every order leaves
\* the same keys, and in each bucket the same length and the same set of
\* addresses.
C17_MergeOrderIndependent ==
    op = "merge" =>
        \A peers \in Orders(AddressesOf(input)) :
            LET other == merge_table(before, self_key, peers)
            IN  /\ DOMAIN other = DOMAIN candidates
                /\ \A b \in DOMAIN candidates :
                    /\ Len(other[b]) = Len(candidates[b])
                    /\ AddressesOf(other[b]) = AddressesOf(candidates[b])

\* No queue of t is shorter, or gone, in u.
NoShorter(t, u) ==
    \A b \in DOMAIN t : b \in DOMAIN u /\ Len(u[b]) >= Len(t[b])

C18_Steps ==
    Mutated =>
        LET tr == Trace
        IN  \A i \in 1 .. Len(tr) - 1 : NoShorter(tr[i], tr[i + 1])

\* C18: no operation shortens a queue: across every step of the model, and
\* across the processing of every single address inside new,
\* try_refresh_candidates and handle_get_closest_query, each existing queue
\* is afterwards at least as long as before.
C18_NoQueueShortens ==
    []C18_Steps /\ [][NoShorter(candidates, candidates')]_vars

\* C18 witness: a merge has evicted the front of a full queue and pushed the
\* peer, leaving the length as it was.
C18_Witness ==
    /\ op = "merge"
    /\ Len(input) = 1
    /\ \E b \in DOMAIN before :
        /\ Len(before[b]) = MAX_PEERS_PER_BUCKET
        /\ ArrivedFor(b) # <<>>
        /\ ~Contains(before[b], input[1])
        /\ Len(candidates[b]) = Len(before[b])

\* C19: no bucket key is mapped to an empty queue, so candidates() yields as
\* many addresses as the table has keys.
C19_QueuesNonEmpty ==
    /\ \A b \in DOMAIN candidates : candidates[b] # <<>>
    /\ \A s \in yielded : Len(s) = Cardinality(DOMAIN candidates)

\* C19 witness: candidates() has yielded two addresses from a table with two
\* keys.
C19_Witness ==
    /\ op = "candidates"
    /\ Cardinality(DOMAIN candidates) = 2
    /\ \E s \in yielded : Len(s) = 2

====
